---- MODULE Spec2Model ----
(***************************************************************************)
(* A model of boltons/ecoutils.py: the module-level feature probes, the    *)
(* profile builder get_profile() and the shell escaping helpers            *)
(* _escape_shell_args / _args2sh / _args2cmd.                              *)
(*                                                                         *)
(* Python strings are modelled as sequences of one-character strings, so   *)
(* that quoting, str.replace, str.join, oct() and str.rjust are computed   *)
(* character by character.  '' is << >> and '-' is << "-" >>.              *)
(***************************************************************************)
EXTENDS Integers, Sequences, FiniteSets, TLC

VARIABLES
    qargs,      \* the argument list handed to _escape_shell_args
    qstyle,     \* the style it was called with ("unset" before the call)
    qout,       \* what the call produced: [kind |-> "none" | "ok" | "ValueError", val]
    env,        \* the process environment the module runs in
    umask,      \* the process umask (an integer, shared process state)
    mod,        \* the module-level constants computed at import
    heap,       \* the dict objects, by address 1..Len(heap)
    pc,         \* position of the running get_profile call
    loc,        \* locals of the running get_profile call
    returned,   \* the profiles returned so far, oldest first
    budget      \* get_profile calls the caller still makes

vars == << qargs, qstyle, qout, env, umask, mod, heap, pc, loc, returned, budget >>

(***************************************************************************)
(* Bounds of the model.                                                    *)
(***************************************************************************)
\* characters in all the arguments of one argument list, together
MaxChars == 4
\* arguments in one argument list
MaxArgs == 2
\* get_profile calls in one process
MaxCalls == 3

\* the characters arguments are drawn from: an ordinary (safe) character,
\* space, tab, single quote, double quote, backslash
Chars == {"a", " ", "\t", "'", "\"", "\\"}

(***************************************************************************)
(* Generic string helpers (Python built-ins).                              *)
(***************************************************************************)
RECURSIVE Concat(_)
\* ''.join(pieces)
Concat(pieces) ==
    IF pieces = << >> THEN << >>
    ELSE Head(pieces) \o Concat(Tail(pieces))

RECURSIVE Join(_, _)
\* sep.join(pieces)
Join(sep, pieces) ==
    IF pieces = << >> THEN << >>
    ELSE IF Len(pieces) = 1 THEN Head(pieces)
    ELSE Head(pieces) \o sep \o Join(sep, Tail(pieces))

RECURSIVE Replace(_, _, _)
\* s.replace(c, new) for a one-character c
Replace(s, c, new) ==
    IF s = << >> THEN << >>
    ELSE (IF Head(s) = c THEN new ELSE << Head(s) >>) \o Replace(Tail(s), c, new)

\* '\\' * n
Repeat(c, n) == [i \in 1..n |-> c]

\* c in s
Contains(s, c) == \E i \in 1..Len(s) : s[i] = c

(***************************************************************************)
(* _args2sh                                                                *)
(***************************************************************************)
\* the characters the regular expression [^a-zA-Z0-9_@%+=:,./-] does not match
ShSafeChars ==
    { "a","b","c","d","e","f","g","h","i","j","k","l","m",
      "n","o","p","q","r","s","t","u","v","w","x","y","z",
      "A","B","C","D","E","F","G","H","I","J","K","L","M",
      "N","O","P","Q","R","S","T","U","V","W","X","Y","Z",
      "0","1","2","3","4","5","6","7","8","9",
      "_","@","%","+","=",":",",",".","/","-" }

\* _find_sh_unsafe(arg) is not None
FindShUnsafe(arg) == \E i \in 1..Len(arg) : arg[i] \notin ShSafeChars

\* the replacement of an embedded single quote: '"'"'
ShQuoteEscape == << "'", "\"", "'", "\"", "'" >>

\* a variant that leaves embedded single quotes as they are
ShQuotedNoReplace(arg) == << "'" >> \o arg \o << "'" >>

\* "'" + arg.replace("'", "'\"'\"'") + "'"
ShQuoted(arg) == << "'" >> \o Replace(arg, "'", ShQuoteEscape) \o << "'" >>

\* one iteration of the loop of _args2sh: what is appended to ret_list
ShArg(arg) ==
    IF arg = << >> THEN << "'", "'" >>
    ELSE IF ~FindShUnsafe(arg) THEN arg
    ELSE ShQuoted(arg)

\* _args2sh(args, sep): sep is accepted and not used, the join is on ' '
Args2sh(args, sep) == Join(<< " " >>, [i \in 1..Len(args) |-> ShArg(args[i])])

(***************************************************************************)
(* _args2cmd                                                               *)
(***************************************************************************)
\* needquote = (" " in arg) or ("\t" in arg) or not arg
NeedQuote(arg) == Contains(arg, " ") \/ Contains(arg, "\t") \/ arg = << >>

RECURSIVE CmdScan(_, _, _, _)
\* the loop "for c in arg": result is the list of pieces, bs the length of bs_buf;
\* returns the two after the last character
CmdScan(arg, i, result, bs) ==
    IF i > Len(arg) THEN [result |-> result, bs |-> bs]
    ELSE IF arg[i] = "\\" THEN CmdScan(arg, i + 1, result, bs + 1)
    ELSE IF arg[i] = "\"" THEN
        CmdScan(arg, i + 1,
                result \o << Repeat("\\", bs * 2), << "\\", "\"" >> >>, 0)
    ELSE
        CmdScan(arg, i + 1,
                (IF bs > 0 THEN result \o Repeat(<< "\\" >>, bs) ELSE result)
                    \o << << arg[i] >> >>,
                0)

\* a variant that does not double the backslashes before the closing quote
CmdCloseNoDouble(result, bs, needquote) ==
    LET flushed == IF bs > 0 THEN result \o Repeat(<< "\\" >>, bs) ELSE result
    IN  IF needquote THEN flushed \o << << "\"" >> >> ELSE flushed

\* the end of one argument: "Add remaining backslashes, if any", and with
\* needquote the backslashes once more and the closing quote
CmdClose(result, bs, needquote) ==
    LET flushed == IF bs > 0 THEN result \o Repeat(<< "\\" >>, bs) ELSE result
    IN  IF needquote
        THEN flushed \o Repeat(<< "\\" >>, bs) \o << << "\"" >> >>
        ELSE flushed

\* one iteration of the loop "for arg in args" on the list of pieces
CmdArg(result, arg) ==
    LET needquote == NeedQuote(arg)
        sep    == IF result # << >> THEN result \o << << " " >> >> ELSE result
        opened == IF needquote THEN sep \o << << "\"" >> >> ELSE sep
        scan   == CmdScan(arg, 1, opened, 0)
    IN  CmdClose(scan.result, scan.bs, needquote)

RECURSIVE CmdArgs(_, _, _)
CmdArgs(args, i, result) ==
    IF i > Len(args) THEN result
    ELSE CmdArgs(args, i + 1, CmdArg(result, args[i]))

\* _args2cmd(args, sep): sep is accepted and not used
Args2cmd(args, sep) == Concat(CmdArgs(args, 1, << >>))

(***************************************************************************)
(* _escape_shell_args                                                      *)
(***************************************************************************)
\* style "unset" stands for style=None (or any false value)
EscapeShellArgs(args, sep, style, platform) ==
    LET st == IF style = "unset"
              THEN (IF platform = "win32" THEN "cmd" ELSE "sh")
              ELSE style
    IN  IF st = "sh" THEN [kind |-> "ok", val |-> Args2sh(args, sep)]
        ELSE IF st = "cmd" THEN [kind |-> "ok", val |-> Args2cmd(args, sep)]
        ELSE [kind |-> "ValueError", val |-> << >>]

(***************************************************************************)
(* Reference tokenizers.  These are not code of the module: they are the   *)
(* shells' word-splitting rules the quoting is written against, used only  *)
(* to state the round-trip properties.                                     *)
(***************************************************************************)
\* a word no argument list over Chars holds: the result of a malformed line
Malformed == << << "<malformed>" >> >>

\* the characters a backslash escapes inside POSIX double quotes (of those, the
\* ones that can occur over Chars; the dollar sign and the backquote cannot)
DqEscapable == {"\"", "\\", "\n"}

RECURSIVE ShLex(_, _, _, _, _, _)
\* POSIX shell word splitting of s from position i.  mode is "plain", "single"
\* or "double"; cur is the word under construction, started whether there is one.
ShLex(s, i, mode, cur, started, toks) ==
    IF i > Len(s) THEN
        IF mode # "plain" THEN Malformed
        ELSE IF started THEN Append(toks, cur) ELSE toks
    ELSE IF mode = "single" THEN
        IF s[i] = "'" THEN ShLex(s, i + 1, "plain", cur, TRUE, toks)
        ELSE ShLex(s, i + 1, "single", Append(cur, s[i]), TRUE, toks)
    ELSE IF mode = "double" THEN
        IF s[i] = "\"" THEN ShLex(s, i + 1, "plain", cur, TRUE, toks)
        ELSE IF s[i] = "\\" /\ i < Len(s) /\ s[i + 1] \in DqEscapable
            THEN ShLex(s, i + 2, "double", Append(cur, s[i + 1]), TRUE, toks)
        ELSE ShLex(s, i + 1, "double", Append(cur, s[i]), TRUE, toks)
    ELSE IF s[i] \in {" ", "\t", "\n"} THEN
        ShLex(s, i + 1, "plain", << >>, FALSE,
              IF started THEN Append(toks, cur) ELSE toks)
    ELSE IF s[i] = "'" THEN ShLex(s, i + 1, "single", cur, TRUE, toks)
    ELSE IF s[i] = "\"" THEN ShLex(s, i + 1, "double", cur, TRUE, toks)
    ELSE IF s[i] = "\\" THEN
        IF i = Len(s) THEN Malformed
        ELSE ShLex(s, i + 2, "plain", Append(cur, s[i + 1]), TRUE, toks)
    ELSE ShLex(s, i + 1, "plain", Append(cur, s[i]), TRUE, toks)

ShTokens(s) == ShLex(s, 1, "plain", << >>, FALSE, << >>)

RECURSIVE BackslashRun(_, _)
\* the number of consecutive backslashes of s starting at position i
BackslashRun(s, i) ==
    IF i <= Len(s) /\ s[i] = "\\" THEN 1 + BackslashRun(s, i + 1) ELSE 0

RECURSIVE CmdLex(_, _, _, _, _, _)
\* The Windows backslash/quote convention: 2n backslashes and a quote are n
\* backslashes and a quote toggle, 2n+1 backslashes and a quote are n
\* backslashes and a literal quote, other backslashes are literal, and a
\* space or tab outside quotes ends the argument.
CmdLex(s, i, inq, cur, started, toks) ==
    IF i > Len(s) THEN
        IF started THEN Append(toks, cur) ELSE toks
    ELSE IF s[i] = "\\" THEN
        LET k == BackslashRun(s, i)
            j == i + k
        IN  IF j <= Len(s) /\ s[j] = "\"" THEN
                IF k % 2 = 0
                THEN CmdLex(s, j + 1, ~inq, cur \o Repeat("\\", k \div 2), TRUE, toks)
                ELSE CmdLex(s, j + 1, inq,
                            cur \o Repeat("\\", k \div 2) \o << "\"" >>, TRUE, toks)
            ELSE CmdLex(s, j, inq, cur \o Repeat("\\", k), TRUE, toks)
    ELSE IF s[i] = "\"" THEN CmdLex(s, i + 1, ~inq, cur, TRUE, toks)
    ELSE IF s[i] \in {" ", "\t"} /\ ~inq THEN
        CmdLex(s, i + 1, FALSE, << >>, FALSE,
               IF started THEN Append(toks, cur) ELSE toks)
    ELSE CmdLex(s, i + 1, inq, Append(cur, s[i]), TRUE, toks)

CmdTokens(s) == CmdLex(s, 1, FALSE, << >>, FALSE, << >>)

(***************************************************************************)
(* The process environment.  Strings the operating system or the           *)
(* interpreter would report are short stand-ins for the real ones.         *)
(***************************************************************************)
\* the optional modules and attributes the module-level probes look for
Libs == { "readline", "sqlite3", "ssl", "tkinter", "zlib", "expat",
          "multiprocessing", "threading", "socket.has_ipv6", "resource" }

\* the system lookups of get_profile and get_python_info that can raise
Lookups == { "getuser", "gethostname", "linux_distribution", "getcwd",
             "python_compiler" }

\* what the lookups report when they work
Sys ==
    [ user       |-> << "m", "a", "h" >>,
      hostname   |-> << "h", "o", "s", "t" >>,
      hostfqdn   |-> << "h", "o", "s", "t", ".", "l", "a", "n" >>,
      uname      |-> << << "L", "i", "n", "u", "x" >>,
                        << "h", "o", "s", "t" >>,
                        << "3", ".", "1", "3" >>,
                        << "#", "1", "2", "9" >>,
                        << "x", "8", "6" >>,
                        << "x", "8", "6" >> >>,
      linux_dist |-> << << "U", "b", "u", "n", "t", "u" >>,
                        << "1", "4", ".", "0", "4" >>,
                        << "t", "r", "u", "s", "t", "y" >> >>,
      fs_encoding |-> << "U", "T", "F", "-", "8" >>,
      cwd        |-> << "/", "h", "o", "m", "e" >>,
      executable |-> << "/", "b", "i", "n", "/", "p", "y" >>,
      argv       |-> << << "e", "c", "o", ".", "p", "y" >>, << "a", " ", "b" >> >>,
      version    |-> << "2", ".", "7", " ", "\n", "[", "G", "C", "C", "]" >>,
      compiler   |-> << "G", "C", "C" >>,
      build      |-> << << "d", "e", "f", "a", "u", "l", "t" >>,
                        << "J", "u", "n", " ", "2", "2" >> >>,
      version_info |-> << 2, 7, 6, "final", 0 >>,
      utcnow     |-> << "2", "0", "1", "6", "-", "0", "5" >>,
      timezone   |-> 28800,
      cpu_count  |-> 4,
      rlimit     |-> << 1024, 4096 >>,
      has_ipv6   |-> TRUE,
      maxunicode |-> 1114111,
      pointer    |-> 8,
      openssl    |-> << "1", ".", "0", ".", "1", "f" >>,
      sqlite     |-> << "3", ".", "8", ".", "2" >>,
      tk         |-> << "8", ".", "6" >>,
      zlib       |-> << "1", ".", "2", ".", "8" >>,
      expat      |-> << "2", ".", "1", ".", "0" >> ]

\* the values random.getrandbits(128) is drawn from, as hex(...) prints them
\* after the leading 0x (Python 2 appends an L to a long)
RandomHex == { << "6", "b", "1", "3" >>, << "f", "0", "0", "d" >> }

\* the process umasks considered: 0, 0o002, 0o022, 0o077
Umasks == { 0, 2, 18, 63 }

(***************************************************************************)
(* Module level: the probes and constants computed once at import.         *)
(***************************************************************************)
\* INSTANCE_ID = hex(random.getrandbits(128))[2:-1].lower(): the slice drops
\* the trailing L of Python 2 and the last digit on Python 3
InstanceId(e) ==
    IF e.py = 2 THEN e.rand ELSE SubSeq(e.rand, 1, Len(e.rand) - 1)

Is64Bit == Sys.pointer > 4

HaveUcs4 == Sys.maxunicode > 65536

HaveReadline(e) == "readline" \notin e.missing

SqliteVersion(e) == IF "sqlite3" \in e.missing THEN << >> ELSE Sys.sqlite

\* the estimate used when ssl imports and has no OPENSSL_VERSION
OpensslEstimate ==
    << "O", "p", "e", "n", "S", "S", "L", " ", ">", "0", ".", "8", ".", "0" >>

OpensslVersion(e) ==
    IF "ssl" \in e.missing THEN << >>
    ELSE IF e.sslNoAttr THEN OpensslEstimate
    ELSE Sys.openssl

TkinterVersion(e) == IF "tkinter" \in e.missing THEN << >> ELSE Sys.tk

\* a variant where the zlib probe shares the try block of the sqlite3 probe
ZlibVersionSharedTry(e) ==
    IF "zlib" \in e.missing \/ "sqlite3" \in e.missing THEN << >> ELSE Sys.zlib

ZlibVersion(e) == IF "zlib" \in e.missing THEN << >> ELSE Sys.zlib

ExpatVersion(e) == IF "expat" \in e.missing THEN << >> ELSE Sys.expat

CpuCount(e) == IF "multiprocessing" \in e.missing THEN 0 ELSE Sys.cpu_count

HaveThreading(e) == "threading" \notin e.missing

HaveIpv6(e) == IF "socket.has_ipv6" \in e.missing THEN FALSE ELSE Sys.has_ipv6

RlimitFds(e) == IF "resource" \in e.missing THEN << 0, 0 >> ELSE Sys.rlimit

\* START_TIME_INFO, the one dict object built at import
StartTimeInfo ==
    [ time_utc |-> Sys.utcnow, time_utc_offset |-> (0 - Sys.timezone) \div 3600 ]

\* the address of START_TIME_INFO in the heap
StartTimeAddr == 1

\* the module's globals after import, in environment e
ModuleLoad(e) ==
    [ ECO_VERSION      |-> << "1", ".", "0", ".", "0" >>,
      INSTANCE_ID      |-> InstanceId(e),
      IS_64BIT         |-> Is64Bit,
      HAVE_UCS4        |-> HaveUcs4,
      HAVE_READLINE    |-> HaveReadline(e),
      SQLITE_VERSION   |-> SqliteVersion(e),
      OPENSSL_VERSION  |-> OpensslVersion(e),
      TKINTER_VERSION  |-> TkinterVersion(e),
      ZLIB_VERSION     |-> ZlibVersion(e),
      EXPAT_VERSION    |-> ExpatVersion(e),
      CPU_COUNT        |-> CpuCount(e),
      HAVE_THREADING   |-> HaveThreading(e),
      HAVE_IPV6        |-> HaveIpv6(e),
      RLIMIT_FDS_SOFT  |-> RlimitFds(e)[1],
      RLIMIT_FDS_HARD  |-> RlimitFds(e)[2],
      START_TIME_INFO  |-> StartTimeAddr ]

(***************************************************************************)
(* Python built-ins used by get_profile and get_python_info.               *)
(***************************************************************************)
OctDigit(d) == << "0", "1", "2", "3", "4", "5", "6", "7" >>[d + 1]

RECURSIVE OctDigits(_)
OctDigits(n) ==
    IF n < 8 THEN << OctDigit(n) >>
    ELSE OctDigits(n \div 8) \o << OctDigit(n % 8) >>

\* oct(n): '0' and the digits on Python 2 ('0' for 0), '0o' and the digits on Python 3
Oct(n, py) ==
    IF py = 2
    THEN (IF n = 0 THEN << "0" >> ELSE << "0" >> \o OctDigits(n))
    ELSE << "0", "o" >> \o OctDigits(n)

\* s.rjust(width, fill)
Rjust(s, width, fill) ==
    IF Len(s) >= width THEN s ELSE Repeat(fill, width - Len(s)) \o s

Whitespace == { " ", "\t", "\n" }

RECURSIVE SplitWs(_, _, _)
\* s.split(): the words of s between runs of whitespace
SplitWs(s, cur, words) ==
    IF s = << >> THEN (IF cur = << >> THEN words ELSE Append(words, cur))
    ELSE IF Head(s) \in Whitespace
        THEN SplitWs(Tail(s), << >>, IF cur = << >> THEN words ELSE Append(words, cur))
    ELSE SplitWs(Tail(s), Append(cur, Head(s)), words)

(***************************************************************************)
(* Dict objects.  A dict is a function from its keys; a dict held by       *)
(* another dict is held by its address in the heap.                        *)
(***************************************************************************)
EmptyDict == << >>

\* d.update(other)
Update(d, other) ==
    [x \in (DOMAIN d) \cup (DOMAIN other) |-> IF x \in DOMAIN other THEN other[x] ELSE d[x]]

\* heap h after (the dict at address a).update(other)
PutAll(h, a, other) == [h EXCEPT ![a] = Update(@, other)]

\* the address of the dict the literal {} or {...} builds: a new object
NewDict(h) == Len(h) + 1

\* the keys whose values are addresses of nested dicts
RefKeys == { "uname", "python", "features" }

RECURSIVE Deep(_, _)
\* the value of the dict at address a with its nested dicts in place of their
\* addresses: what a reader of the profile (or json.dumps) sees
Deep(h, a) ==
    [k \in DOMAIN h[a] |-> IF k \in RefKeys THEN Deep(h, h[a][k]) ELSE h[a][k]]

RECURSIVE Objects(_, _)
\* the addresses of the dict at a and of the dicts nested in it
Objects(h, a) ==
    {a} \cup UNION { Objects(h, h[a][k]) : k \in (DOMAIN h[a]) \cap RefKeys }

(***************************************************************************)
(* get_python_info                                                         *)
(***************************************************************************)
\* the dict literal of ret['features']
Features(m) ==
    ("64bit" :> m.IS_64BIT) @@
    [ openssl      |-> m.OPENSSL_VERSION,
      expat        |-> m.EXPAT_VERSION,
      sqlite       |-> m.SQLITE_VERSION,
      tkinter      |-> m.TKINTER_VERSION,
      zlib         |-> m.ZLIB_VERSION,
      unicode_wide |-> m.HAVE_UCS4,
      readline     |-> m.HAVE_READLINE,
      ipv6         |-> m.HAVE_IPV6,
      threading    |-> m.HAVE_THREADING ]

\* a variant that keeps the features in a dict of the module and hands that out
FeaturesDictShared(h, m) == m.START_TIME_INFO

\* where the dict literal of ret['features'] is built: a new object each call
FeaturesDict(h, m) == NewDict(h)

\* lines 218-225 of get_python_info: ret = {} and its argv, bin and version;
\* the heap after them and the address of ret
PythonInfoHead(h, e) ==
    LET ret  == NewDict(h)
        argv == EscapeShellArgs(Sys.argv, << " " >>, "unset", e.platform).val
    IN  [ heap |-> PutAll(Append(h, EmptyDict), ret,
                     [ argv    |-> argv,
                       bin     |-> Sys.executable,
                       version |-> Join(<< " " >>, SplitWs(Sys.version, << >>, << >>)) ]),
          ret  |-> ret ]

\* lines 227-242 of get_python_info, when platform.python_compiler() works
PythonInfo(h, e, m) ==
    LET head == PythonInfoHead(h, e)
        ret  == head.ret
        h2   == PutAll(head.heap, ret,
                    [ compiler     |-> Sys.compiler,
                      build_date   |-> Sys.build[2],
                      version_info |-> Sys.version_info ])
        fa   == FeaturesDict(h2, m)
        h3   == IF fa > Len(h2) THEN Append(h2, EmptyDict) ELSE h2
        h4   == [h3 EXCEPT ![fa] = Features(m)]
    IN  [heap |-> PutAll(h4, ret, [features |-> fa]), ret |-> ret]

(***************************************************************************)
(* get_profile, statement by statement.  pc names the statement the        *)
(* running call executes next; "idle" means no call is running.            *)
(***************************************************************************)
\* the keyword arguments a caller may pass: scrub and one unknown keyword
KwargNames == { "scrub", "verbose" }

Kwargs == UNION { [D -> BOOLEAN] : D \in SUBSET KwargNames }

\* the locals of a call that has just been entered
FreshLocals ==
    [ scrub    |-> FALSE,   \* the value popped from kwargs
      extra    |-> FALSE,   \* whether kwargs held another keyword
      ret      |-> 0,       \* the address of ret (0: not built)
      old      |-> 0,       \* the value the inner os.umask(2) returned
      queries  |-> { },     \* the system queries this call has made
      outcome  |-> "none" ] \* "none" | "returned" | "TypeError" | "raised"

Fails(name) == name \in env.broken

\* the dicts of the profile at ret are left as they are and the exception
\* leaves get_profile
Raise ==
    /\ pc' = "idle"
    /\ loc' = [loc EXCEPT !.outcome = "raised"]

\* a variant without the check of the leftover keywords
LeftoverIgnored(rest) == FALSE

\* "if kwargs:" after the pop of 'scrub'
Leftover(rest) == DOMAIN rest # { }

\* lines 262-265: pop scrub, reject other keywords, ret = {}
Call(kw) ==
    /\ pc = "idle"
    /\ budget > 0
    /\ budget' = budget - 1
    /\ LET scrub == IF "scrub" \in DOMAIN kw THEN kw["scrub"] ELSE FALSE
           rest  == [k \in (DOMAIN kw) \ {"scrub"} |-> kw[k]]
           l     == [FreshLocals EXCEPT !.scrub = scrub,
                                        !.extra = (DOMAIN rest # { })]
       IN  IF Leftover(rest)
           THEN /\ loc' = [l EXCEPT !.outcome = "TypeError"]
                /\ pc' = "idle"
                /\ heap' = heap
           ELSE /\ loc' = [l EXCEPT !.ret = NewDict(heap)]
                /\ pc' = "username"
                /\ heap' = Append(heap, EmptyDict)
    /\ UNCHANGED << qargs, qstyle, qout, env, umask, mod, returned >>

Asked(name) == [loc EXCEPT !.queries = @ \cup {name}]

\* lines 266-270: the user name, guarded, and the guid
StepUsername ==
    /\ pc = "username"
    /\ heap' = PutAll(heap, loc.ret,
                 [ username |-> IF Fails("getuser") THEN << >> ELSE Sys.user,
                   guid     |-> mod.INSTANCE_ID ])
    /\ loc' = Asked("getuser")
    /\ pc' = "hostname"
    /\ UNCHANGED << qargs, qstyle, qout, env, umask, mod, returned, budget >>

\* line 271
StepHostname ==
    /\ pc = "hostname"
    /\ IF Fails("gethostname")
       THEN Raise /\ heap' = heap
       ELSE /\ heap' = PutAll(heap, loc.ret, [hostname |-> Sys.hostname])
            /\ loc' = Asked("gethostname")
            /\ pc' = "hostfqdn"
    /\ UNCHANGED << qargs, qstyle, qout, env, umask, mod, returned, budget >>

\* line 272
StepHostfqdn ==
    /\ pc = "hostfqdn"
    /\ heap' = PutAll(heap, loc.ret, [hostfqdn |-> Sys.hostfqdn])
    /\ loc' = Asked("getfqdn")
    /\ pc' = "uname"
    /\ UNCHANGED << qargs, qstyle, qout, env, umask, mod, returned, budget >>

\* lines 273-279: the uname dict literal
StepUname ==
    /\ pc = "uname"
    /\ LET u == Sys.uname
           a == NewDict(heap)
       IN  heap' = PutAll(Append(heap,
                            [ system    |-> u[1],
                              node      |-> u[2],
                              release   |-> u[3],
                              version   |-> u[4],
                              machine   |-> u[5],
                              processor |-> u[6] ]),
                          loc.ret, [uname |-> a])
    /\ loc' = Asked("uname")
    /\ pc' = "linux_dist"
    /\ UNCHANGED << qargs, qstyle, qout, env, umask, mod, returned, budget >>

\* lines 280-286: the Linux distribution, guarded, and the CPU count
StepLinuxDist ==
    /\ pc = "linux_dist"
    /\ LET linux_dist == IF Fails("linux_distribution")
                         THEN << << >>, << >>, << >> >>
                         ELSE Sys.linux_dist
       IN  heap' = PutAll(heap, loc.ret,
                     [ linux_dist_name    |-> linux_dist[1],
                       linux_dist_version |-> linux_dist[2],
                       cpu_count          |-> mod.CPU_COUNT ])
    /\ loc' = Asked("linux_distribution")
    /\ pc' = "fs_encoding"
    /\ UNCHANGED << qargs, qstyle, qout, env, umask, mod, returned, budget >>

\* lines 288-290
StepFsEncoding ==
    /\ pc = "fs_encoding"
    /\ heap' = PutAll(heap, loc.ret,
                 [ fs_encoding |-> Sys.fs_encoding,
                   ulimit_soft |-> mod.RLIMIT_FDS_SOFT,
                   ulimit_hard |-> mod.RLIMIT_FDS_HARD ])
    /\ loc' = Asked("getfilesystemencoding")
    /\ pc' = "cwd"
    /\ UNCHANGED << qargs, qstyle, qout, env, umask, mod, returned, budget >>

\* line 291
StepCwd ==
    /\ pc = "cwd"
    /\ IF Fails("getcwd")
       THEN Raise /\ heap' = heap
       ELSE /\ heap' = PutAll(heap, loc.ret, [cwd |-> Sys.cwd])
            /\ loc' = Asked("getcwd")
            /\ pc' = "umask_set"
    /\ UNCHANGED << qargs, qstyle, qout, env, umask, mod, returned, budget >>

\* line 292, the inner call os.umask(2): sets the mask, returns the one before
StepUmaskSet ==
    /\ pc = "umask_set"
    /\ umask' = 2
    /\ loc' = [Asked("umask") EXCEPT !.old = umask]
    /\ pc' = "umask_restore"
    /\ UNCHANGED << qargs, qstyle, qout, env, mod, heap, returned, budget >>

\* a variant that hands the outer os.umask the mask it has just read
UmaskArgumentPrevious(old, previous) == previous

\* the argument of the outer os.umask: the value the inner call returned
UmaskArgument(old, previous) == old

\* line 292, the outer call os.umask(...), which returns the mask before it,
\* then oct(...).rjust(3, '0')
StepUmaskRestore ==
    /\ pc = "umask_restore"
    /\ LET previous == umask
       IN  /\ umask' = UmaskArgument(loc.old, previous)
           /\ heap' = PutAll(heap, loc.ret,
                        [umask |-> Rjust(Oct(previous, env.py), 3, "0")])
    /\ pc' = "python"
    /\ UNCHANGED << qargs, qstyle, qout, env, mod, loc, returned, budget >>

\* line 294: ret['python'] = get_python_info(); platform.python_compiler()
\* raises on a version string it cannot parse, and the exception leaves
\* get_python_info and get_profile with the dict built so far left behind
StepPython ==
    /\ pc = "python"
    /\ IF Fails("python_compiler")
       THEN Raise /\ heap' = PythonInfoHead(heap, env).heap
       ELSE LET info == PythonInfo(heap, env, mod)
            IN  /\ heap' = PutAll(info.heap, loc.ret, [python |-> info.ret])
                /\ loc' = Asked("python_compiler")
                /\ pc' = "finish"
    /\ UNCHANGED << qargs, qstyle, qout, env, umask, mod, returned, budget >>

\* a variant that forgets the user name
ScrubTopNoUsername == { "cwd", "hostname", "hostfqdn" }

\* a variant that also blanks the guid
ScrubTopWithGuid == { "cwd", "hostname", "hostfqdn", "username", "guid" }

\* the top-level keys the scrub overwrites
ScrubTop == { "cwd", "hostname", "hostfqdn", "username" }

\* lines 298-306: mask identifiable information, in the dicts of ret
Scrub(h, ret) ==
    LET dash == << "-" >>
        h1   == PutAll(h, ret, [k \in ScrubTop |-> dash])
        h2   == PutAll(h1, h1[ret]["python"], [bin |-> dash, argv |-> dash])
    IN  PutAll(h2, h2[ret]["uname"], [node |-> dash])

\* lines 295-308: the start time, the version tag, the scrub and the return
StepFinish ==
    /\ pc = "finish"
    /\ LET h1 == PutAll(heap, loc.ret, heap[mod.START_TIME_INFO])
           h2 == PutAll(h1, loc.ret, ("_eco_version" :> mod.ECO_VERSION))
           h3 == IF loc.scrub THEN Scrub(h2, loc.ret) ELSE h2
       IN  /\ heap' = h3
           /\ returned' = Append(returned,
                            [ addr  |-> loc.ret,
                              scrub |-> loc.scrub,
                              seen  |-> Deep(h3, loc.ret) ])
    /\ loc' = [loc EXCEPT !.outcome = "returned"]
    /\ pc' = "idle"
    /\ UNCHANGED << qargs, qstyle, qout, env, umask, mod, budget >>

(***************************************************************************)
(* A caller of _escape_shell_args: it builds an argument list and has it   *)
(* escaped once, in a style of its choice.                                 *)
(***************************************************************************)
\* the styles a caller passes: none, the two known ones, an unknown one
Styles == { "unset", "sh", "cmd", "bash" }

RECURSIVE TotalLen(_)
TotalLen(args) == IF args = << >> THEN 0 ELSE Len(Head(args)) + TotalLen(Tail(args))

NotEscaped == [kind |-> "none", val |-> << >>]

PushArg ==
    /\ qout.kind = "none"
    /\ Len(qargs) < MaxArgs
    /\ qargs' = Append(qargs, << >>)
    /\ UNCHANGED << qstyle, qout, env, umask, mod, heap, pc, loc, returned, budget >>

PushChar(c) ==
    /\ qout.kind = "none"
    /\ qargs # << >>
    /\ TotalLen(qargs) < MaxChars
    /\ qargs' = [qargs EXCEPT ![Len(qargs)] = Append(@, c)]
    /\ UNCHANGED << qstyle, qout, env, umask, mod, heap, pc, loc, returned, budget >>

CallEscape(style) ==
    /\ qout.kind = "none"
    /\ qstyle' = style
    /\ qout' = EscapeShellArgs(qargs, << " " >>, style, env.platform)
    /\ UNCHANGED << qargs, env, umask, mod, heap, pc, loc, returned, budget >>

(***************************************************************************)
(* Initial states and specifications.                                      *)
(***************************************************************************)
\* the state after "import ecoutils" in environment e, with calls get_profile
\* calls to come
Loaded(e, calls) ==
    /\ env = e
    /\ umask = e.umask0
    /\ mod = ModuleLoad(e)
    /\ heap = << StartTimeInfo >>
    /\ pc = "idle"
    /\ loc = FreshLocals
    /\ returned = << >>
    /\ budget = calls
    /\ qargs = << >>
    /\ qstyle = "unset"
    /\ qout = NotEscaped

NoFault == [missing |-> { }, sslNoAttr |-> FALSE, broken |-> { }]

\* environments with at most one thing wrong: a missing module, an ssl module
\* without OPENSSL_VERSION, or a failing lookup
OneFault ==
    {NoFault}
    \cup { [NoFault EXCEPT !.missing = {l}] : l \in Libs }
    \cup { [NoFault EXCEPT !.sslNoAttr = TRUE] }
    \cup { [NoFault EXCEPT !.broken = {b}] : b \in Lookups }

\* environments with any set of modules missing and every lookup working
AnyMissing ==
    { [NoFault EXCEPT !.missing = m, !.sslNoAttr = n] :
        m \in SUBSET Libs, n \in BOOLEAN }

Env(f, py, platform, rand, um) ==
    [ missing |-> f.missing, sslNoAttr |-> f.sslNoAttr, broken |-> f.broken,
      py |-> py, platform |-> platform, rand |-> rand, umask0 |-> um ]

\* a process that calls get_profile up to MaxCalls times
Init ==
    \E f \in OneFault, py \in {2, 3}, platform \in {"linux", "win32"},
       rand \in RandomHex, um \in Umasks :
        Loaded(Env(f, py, platform, rand, um), MaxCalls)

Next ==
    \/ \E kw \in Kwargs : Call(kw)
    \/ StepUsername
    \/ StepHostname
    \/ StepHostfqdn
    \/ StepUname
    \/ StepLinuxDist
    \/ StepFsEncoding
    \/ StepCwd
    \/ StepUmaskSet
    \/ StepUmaskRestore
    \/ StepPython
    \/ StepFinish

Spec == Init /\ [][Next]_vars

\* a process that calls get_profile once, with any set of modules missing
InitProbes ==
    \E f \in AnyMissing, py \in {2, 3} :
        Loaded(Env(f, py, "linux", << "6", "b", "1", "3" >>, 18), 1)

SpecProbes == InitProbes /\ [][Next]_vars

\* a process that escapes one argument list
InitQuote ==
    \E platform \in {"linux", "win32"} :
        Loaded(Env(NoFault, 3, platform, << "6", "b", "1", "3" >>, 18), 0)

NextQuote ==
    \/ PushArg
    \/ \E c \in Chars : PushChar(c)
    \/ \E style \in Styles : CallEscape(style)

SpecQuote == InitQuote /\ [][NextQuote]_vars

(***************************************************************************)
(* The properties.                                                         *)
(***************************************************************************)
Dash == << "-" >>

Profiles == DOMAIN returned

\* C1: POSIX quoting round-trip.  Whenever _escape_shell_args has run in style
\* 'sh' on an argument list, splitting its output into words as a POSIX shell
\* does gives back exactly that list: same length, same order, same strings
\* (empty arguments and arguments with spaces, quotes and backslashes included).
C1_ShRoundTrip ==
    (qout.kind = "ok" /\ qstyle = "sh") => ShTokens(qout.val) = qargs

\* an 'sh' call on an empty argument followed by one with a space and a single quote
C1_Witness ==
    /\ qout.kind = "ok" /\ qstyle = "sh"
    /\ Len(qargs) = 2
    /\ qargs[1] = << >>
    /\ Contains(qargs[2], "'") /\ Contains(qargs[2], " ")

\* C2: Windows quoting round-trip.  Whenever _escape_shell_args has run in
\* style 'cmd' on an argument list, parsing its output with the backslash/quote
\* convention gives back exactly that list.
C2_CmdRoundTrip ==
    (qout.kind = "ok" /\ qstyle = "cmd") => CmdTokens(qout.val) = qargs

\* a 'cmd' call on an empty argument followed by a quote-wrapped argument that
\* ends in a backslash
C2_Witness ==
    /\ qout.kind = "ok" /\ qstyle = "cmd"
    /\ Len(qargs) = 2
    /\ qargs[1] = << >>
    /\ Len(qargs[2]) >= 2
    /\ NeedQuote(qargs[2])
    /\ qargs[2][Len(qargs[2])] = "\\"

\* a profile p with its seven identifying fields replaced by '-'
Masked(p) ==
    [p EXCEPT !["cwd"] = Dash, !["hostname"] = Dash, !["hostfqdn"] = Dash,
              !["username"] = Dash,
              !["python"] = [@ EXCEPT !["bin"] = Dash, !["argv"] = Dash],
              !["uname"] = [@ EXCEPT !["node"] = Dash]]

\* C3: Scrub effect.  In one process, a profile returned with scrub=True and one
\* returned with scrub=False have the same keys at every level, the scrubbed
\* one holds '-' at cwd, hostname, hostfqdn, python.bin, python.argv,
\* uname.node and username, and every other field has the unscrubbed value.
C3_ScrubEffect ==
    \A i, j \in Profiles :
        (returned[i].scrub /\ ~returned[j].scrub) =>
            LET s == returned[i].seen
                u == returned[j].seen
            IN  /\ DOMAIN s = DOMAIN u
                /\ DOMAIN s["python"] = DOMAIN u["python"]
                /\ DOMAIN s["python"]["features"] = DOMAIN u["python"]["features"]
                /\ DOMAIN s["uname"] = DOMAIN u["uname"]
                /\ s = Masked(u)

\* an unscrubbed profile followed by a scrubbed one, the masked fields differing
C3_Witness ==
    /\ Len(returned) = 2
    /\ ~returned[1].scrub /\ returned[2].scrub
    /\ returned[1].seen["username"] # Dash
    /\ returned[2].seen["username"] = Dash

\* the ten keys of python.features
FeatureKeys ==
    { "openssl", "expat", "sqlite", "tkinter", "zlib", "unicode_wide",
      "readline", "64bit", "ipv6", "threading" }

\* the probes that can fail, by feature key: what they import or read, and the
\* value they report in environment e when that is there
VersionProbes(e) ==
    [ openssl |-> [lib |-> "ssl",
                   good |-> IF e.sslNoAttr THEN OpensslEstimate ELSE Sys.openssl],
      expat   |-> [lib |-> "expat",   good |-> Sys.expat],
      sqlite  |-> [lib |-> "sqlite3", good |-> Sys.sqlite],
      tkinter |-> [lib |-> "tkinter", good |-> Sys.tk],
      zlib    |-> [lib |-> "zlib",    good |-> Sys.zlib] ]

FlagProbes ==
    [ readline  |-> [lib |-> "readline",        good |-> TRUE],
      ipv6      |-> [lib |-> "socket.has_ipv6", good |-> Sys.has_ipv6],
      threading |-> [lib |-> "threading",       good |-> TRUE] ]

\* C4: Probe isolation.  Whatever set of the probed modules is missing, a
\* call with valid keywords does not raise, and the features of the profile it
\* returns hold all ten keys: '' (version probes) or False (flag probes) for
\* each probe that failed, and for every other key the value it has when no
\* probe fails.
C4_ProbeIsolation ==
    /\ loc.outcome # "raised"
    /\ (pc = "idle" /\ budget = 0 /\ ~loc.extra) => loc.outcome = "returned"
    /\ \A i \in Profiles :
        LET f == returned[i].seen["python"]["features"]
            v == VersionProbes(env)
        IN  /\ DOMAIN f = FeatureKeys
            /\ \A k \in DOMAIN v :
                 f[k] = IF v[k].lib \in env.missing THEN << >> ELSE v[k].good
            /\ \A k \in DOMAIN FlagProbes :
                 f[k] = IF FlagProbes[k].lib \in env.missing
                        THEN FALSE ELSE FlagProbes[k].good
            /\ f["unicode_wide"] = HaveUcs4
            /\ f["64bit"] = Is64Bit

\* a profile returned although sqlite3, ssl and threading are missing
C4_Witness ==
    /\ env.missing = { "sqlite3", "ssl", "threading" }
    /\ Len(returned) = 1
    /\ returned[1].seen["python"]["features"]["zlib"] = Sys.zlib
    /\ returned[1].seen["python"]["features"]["sqlite"] = << >>

\* C5: Failure propagation, as claimed: no failing lookup makes get_profile
\* raise; a call ends by returning a profile or by rejecting its keywords.
C5_NoLookupFailurePropagates ==
    loc.outcome \in { "none", "returned", "TypeError" }

\* C6: Invalid keyword rejection.  A call with a keyword other than scrub (with
\* or without scrub) ends at once with TypeError: it has made no system query,
\* has not touched the umask, has built no dict and returned no profile.
C6_InvalidKeywordRejected ==
    loc.extra =>
        /\ pc = "idle"
        /\ loc.outcome = "TypeError"
        /\ loc.queries = { }
        /\ loc.ret = 0
        /\ umask = env.umask0
        /\ Len(returned) < MaxCalls - budget

\* a call rejected with scrub=True also given, after a call that returned
C6_Witness ==
    /\ loc.extra /\ loc.scrub
    /\ loc.outcome = "TypeError"
    /\ Len(returned) = 1

\* C7: Identity stability.  All profiles returned in one process, scrubbed or
\* not, carry the same guid, time_utc, time_utc_offset, cpu_count, ulimit_soft,
\* ulimit_hard and python.features: the values computed at import, which no
\* call recomputes or changes.
C7_IdentityStable ==
    /\ mod = ModuleLoad(env)
    /\ heap[mod.START_TIME_INFO] = StartTimeInfo
    /\ \A i \in Profiles :
        LET p == returned[i].seen
        IN  /\ p["guid"] = mod.INSTANCE_ID
            /\ p["time_utc"] = StartTimeInfo.time_utc
            /\ p["time_utc_offset"] = StartTimeInfo.time_utc_offset
            /\ p["cpu_count"] = mod.CPU_COUNT
            /\ p["ulimit_soft"] = mod.RLIMIT_FDS_SOFT
            /\ p["ulimit_hard"] = mod.RLIMIT_FDS_HARD
            /\ p["python"]["features"] = Features(mod)
    /\ \A i, j \in Profiles :
        LET p == returned[i].seen
            q == returned[j].seen
        IN  /\ p["guid"] = q["guid"]
            /\ p["time_utc"] = q["time_utc"]
            /\ p["time_utc_offset"] = q["time_utc_offset"]
            /\ p["cpu_count"] = q["cpu_count"]
            /\ p["ulimit_soft"] = q["ulimit_soft"]
            /\ p["ulimit_hard"] = q["ulimit_hard"]
            /\ p["python"]["features"] = q["python"]["features"]

\* two profiles returned with different scrub values
C7_Witness ==
    /\ Len(returned) >= 2
    /\ returned[1].scrub # returned[2].scrub
    /\ returned[1].seen["guid"] = returned[2].seen["guid"]

\* C8: Umask preserved.  The process umask is the one the process started with
\* at every point except between the two os.umask calls of one get_profile
\* call, where it is 2; so it is the original one after every call.
C8_UmaskPreserved ==
    /\ pc = "umask_restore" => umask = 2
    /\ pc # "umask_restore" => umask = env.umask0

\* two calls have returned in a process whose umask is 0o077, and it still is
C8_Witness ==
    /\ env.umask0 = 63
    /\ Len(returned) = 2
    /\ pc = "idle"
    /\ umask = 63

\* C9: Umask reported, as claimed: the umask field of a returned profile is the
\* process umask as three zero-padded octal digits.
C9_UmaskReported ==
    \A i \in Profiles :
        returned[i].seen["umask"] = Rjust(OctDigits(env.umask0), 3, "0")

\* what the seven identifying fields hold when they are not masked
Unmasked(p, e) ==
    /\ p["username"] = (IF "getuser" \in e.broken THEN << >> ELSE Sys.user)
    /\ p["hostname"] = Sys.hostname
    /\ p["hostfqdn"] = Sys.hostfqdn
    /\ p["cwd"] = Sys.cwd
    /\ p["uname"]["node"] = Sys.uname[2]
    /\ p["python"]["bin"] = Sys.executable
    /\ p["python"]["argv"] =
         << "e", "c", "o", ".", "p", "y", " " >> \o
         (IF e.platform = "win32" THEN << "\"", "a", " ", "b", "\"" >>
                                  ELSE << "'", "a", " ", "b", "'" >>)

\* C10: Fresh profile per call.  The dicts of a returned profile (the record,
\* python, python.features, uname) are four objects of its own, shared with no
\* other returned profile and not the module's START_TIME_INFO; every profile
\* still reads as it did when it was returned; START_TIME_INFO and the module
\* constants are as at import; and an unscrubbed profile holds the unmasked
\* values of the seven fields, whatever calls came before it.
C10_FreshProfile ==
    /\ mod = ModuleLoad(env)
    /\ heap[StartTimeAddr] = StartTimeInfo
    /\ \A i \in Profiles :
        /\ StartTimeAddr \notin Objects(heap, returned[i].addr)
        /\ Cardinality(Objects(heap, returned[i].addr)) = 4
        /\ Deep(heap, returned[i].addr) = returned[i].seen
        /\ ~returned[i].scrub => Unmasked(returned[i].seen, env)
    /\ \A i, j \in Profiles :
        i # j => Objects(heap, returned[i].addr) \cap Objects(heap, returned[j].addr) = { }

\* a scrubbed profile, then an unscrubbed one that shows the user name
C10_Witness ==
    /\ Len(returned) = 2
    /\ returned[1].scrub /\ ~returned[2].scrub
    /\ returned[2].seen["username"] = Sys.user
    /\ Deep(heap, returned[1].addr)["username"] = Dash

====
